---- MODULE Spec2Model ----
(***************************************************************************)
(* Model of the quickfix engine of aiken-lsp (crates/aiken-lsp/src/        *)
(* quickfix.rs): the classifier `assert`, the candidate generators         *)
(* (unknown_identifier, unknown_constructor, unknown_module,               *)
(* unused_imports) and the action assemblers (each_as_distinct_action,     *)
(* as_single_action), driven by `quickfix`.                                *)
(*                                                                         *)
(* Rust strings that the code inspects (module names, payloads) are        *)
(* sequences of one-character strings, so that split(','), ends_with,      *)
(* parse::<usize> and bool::from_str are computed character by character.  *)
(* Diagnostic codes are only ever compared for equality and stay TLA+      *)
(* strings.                                                                *)
(***************************************************************************)
EXTENDS Integers, Sequences, FiniteSets, TLC

VARIABLES
    pc,             \* "idle" | "asserted" | "returned" | "panicked" |
                    \* "breadcrumbs" | "generated"
    diagnostic,     \* argument of the last call of `assert`
    classified,     \* its result: Option<Quickfix>
    compiler,       \* argument of `quickfix`: the project's modules, in enumeration order
    text_document,  \* argument of `quickfix`: the document identifier
    strategy,       \* argument of `quickfix`: the Quickfix value
    actions,        \* Vec<CodeAction> returned by `quickfix` (empty if it panicked)
    panic,          \* message of the panic that aborted `quickfix`, or ""
    path,           \* argument of `to_breadcrumbs`
    breadcrumbs,    \* its result
    checked_modules,\* argument of `generate_all`: the modules of the project
    output_files    \* Vec<DocFile> returned by `generate_all`

vars == <<pc, diagnostic, classified, compiler, text_document, strategy, actions, panic,
          path, breadcrumbs, checked_modules, output_files>>

----------------------------------------------------------------------------
(* Bounds of the model. *)

\* longest project (number of modules) handed to quickfix
MaxModules == 3
\* longest batch of unused-import diagnostics handed to quickfix
MaxBatch == 3
\* longest path (in characters over "a", ".", "/") handed to to_breadcrumbs
MaxPathLen == 5
\* longest list of modules handed to generate_all
MaxDocModules == 2

----------------------------------------------------------------------------
(* Diagnostic codes, quickfix.rs:7-12. *)

UNKNOWN_VARIABLE == "aiken::check::unknown::variable"
UNKNOWN_TYPE == "aiken::check::unknown::type"
UNKNOWN_CONSTRUCTOR == "aiken::check::unknown::type_constructor"
UNKNOWN_MODULE == "aiken::check::unknown::module"
UNUSED_IMPORT_VALUE == "aiken::check::unused:import::value"
UNUSED_IMPORT_MODULE == "aiken::check::unused::import::module"

----------------------------------------------------------------------------
(* Option<NumberOrString>, Option<serde_json::Value>, Option<&str>. *)

CodeString(s) == [tag |-> "String", val |-> s]
CodeNumber(n) == [tag |-> "Number", val |-> n]
NoCode == [tag |-> "None", val |-> ""]

DataString(s) == [tag |-> "String", str |-> s]
DataNumber == [tag |-> "Number", str |-> <<>>]
NoData == [tag |-> "None", str |-> <<>>]

SomeName(s) == [some |-> TRUE, val |-> s]
NoName == [some |-> FALSE, val |-> <<>>]

----------------------------------------------------------------------------
(* The classifier. *)

\* the bug "the severity is not looked at"
match_code_any_severity(d, severity, expected) ==
    d.code = CodeString(expected)

match_code(d, severity, expected) ==
    /\ d.code = CodeString(expected)
    /\ d.severity = severity

\* enum Quickfix; the three single-diagnostic variants hold a one-element sequence
UnknownIdentifier(d) == [tag |-> "UnknownIdentifier", diagnostics |-> <<d>>]
UnknownModule(d) == [tag |-> "UnknownModule", diagnostics |-> <<d>>]
UnknownConstructor(d) == [tag |-> "UnknownConstructor", diagnostics |-> <<d>>]
UnusedImports(ds) == [tag |-> "UnusedImports", diagnostics |-> ds]
None == [tag |-> "None", diagnostics |-> <<>>]

\* the bug "two arms of the table are swapped"
assert_swapped(d) ==
    IF \/ match_code(d, "ERROR", UNKNOWN_VARIABLE)
       \/ match_code(d, "ERROR", UNKNOWN_TYPE)
    THEN UnknownIdentifier(d)
    ELSE IF match_code(d, "ERROR", UNKNOWN_CONSTRUCTOR)
    THEN UnknownModule(d)
    ELSE IF match_code(d, "ERROR", UNKNOWN_MODULE)
    THEN UnknownConstructor(d)
    ELSE IF \/ match_code(d, "WARNING", UNUSED_IMPORT_VALUE)
            \/ match_code(d, "WARNING", UNUSED_IMPORT_MODULE)
    THEN UnusedImports(<<d>>)
    ELSE None

assert(d) ==
    IF \/ match_code(d, "ERROR", UNKNOWN_VARIABLE)
       \/ match_code(d, "ERROR", UNKNOWN_TYPE)
    THEN UnknownIdentifier(d)
    ELSE IF match_code(d, "ERROR", UNKNOWN_CONSTRUCTOR)
    THEN UnknownConstructor(d)
    ELSE IF match_code(d, "ERROR", UNKNOWN_MODULE)
    THEN UnknownModule(d)
    ELSE IF \/ match_code(d, "WARNING", UNUSED_IMPORT_VALUE)
            \/ match_code(d, "WARNING", UNUSED_IMPORT_MODULE)
    THEN UnusedImports(<<d>>)
    ELSE None

----------------------------------------------------------------------------
(* Rust string operations used by the generators. *)

Digits == {"0", "1", "2", "3", "4", "5", "6", "7", "8", "9"}

DigitValue(c) ==
    CASE c = "0" -> 0 [] c = "1" -> 1 [] c = "2" -> 2 [] c = "3" -> 3
      [] c = "4" -> 4 [] c = "5" -> 5 [] c = "6" -> 6 [] c = "7" -> 7
      [] c = "8" -> 8 [] c = "9" -> 9

\* str::contains: the pattern occurs anywhere in s
contains(s, pat) ==
    \E i \in 0..(Len(s) - Len(pat)) : SubSeq(s, i + 1, i + Len(pat)) = pat

\* str::ends_with: the pattern is a suffix of s
ends_with(s, pat) ==
    /\ Len(pat) <= Len(s)
    /\ SubSeq(s, Len(s) - Len(pat) + 1, Len(s)) = pat

\* str::split(sep).collect(): the fields between the separators; "" gives [""]
RECURSIVE split(_, _)
split(s, sep) ==
    IF \A i \in 1..Len(s) : s[i] # sep
    THEN <<s>>
    ELSE LET i == CHOOSE k \in 1..Len(s) :
                      /\ s[k] = sep
                      /\ \A j \in 1..(k - 1) : s[j] # sep
         IN <<SubSeq(s, 1, i - 1)>> \o split(SubSeq(s, i + 1, Len(s)), sep)

\* usize::MAX of a 64-bit target, as a numeral
USIZE_MAX == <<"1", "8", "4", "4", "6", "7", "4", "4", "0", "7",
               "3", "7", "0", "9", "5", "5", "1", "6", "1", "5">>

RECURSIVE StripZeros(_)
StripZeros(ds) ==
    IF Len(ds) > 1 /\ ds[1] = "0" THEN StripZeros(Tail(ds)) ELSE ds

\* numeral a denotes a larger number than numeral b (both without leading zeros)
NumeralGreater(a, b) ==
    \/ Len(a) > Len(b)
    \/ /\ Len(a) = Len(b)
       /\ \E i \in 1..Len(a) :
              /\ DigitValue(a[i]) > DigitValue(b[i])
              /\ \A j \in 1..(i - 1) : a[j] = b[j]

RECURSIVE NumeralValue(_)
NumeralValue(ds) ==
    IF ds = <<>> THEN 0
    ELSE 10 * NumeralValue(SubSeq(ds, 1, Len(ds) - 1)) + DigitValue(ds[Len(ds)])

\* str::parse::<usize>: an optional '+', then one or more decimal digits, the
\* value checked against usize::MAX; Err otherwise
parse_usize(s) ==
    LET digits == IF s # <<>> /\ s[1] = "+" THEN Tail(s) ELSE s
    IN IF \/ digits = <<>>
          \/ \E i \in 1..Len(digits) : digits[i] \notin Digits
          \/ NumeralGreater(StripZeros(digits), USIZE_MAX)
       THEN [ok |-> FALSE, value |-> 0]
       ELSE [ok |-> TRUE, value |-> NumeralValue(digits)]

\* bool::from_str: exactly "true" or "false"
parse_bool(s) ==
    IF s = <<"t", "r", "u", "e">> THEN [ok |-> TRUE, value |-> TRUE]
    ELSE IF s = <<"f", "a", "l", "s", "e">> THEN [ok |-> TRUE, value |-> FALSE]
    ELSE [ok |-> FALSE, value |-> FALSE]

----------------------------------------------------------------------------
(* The collaborators of quickfix.rs: the module index (CheckedModule) and the *)
(* edit provider (crate::edits).  A module is [name, definitions,             *)
(* constructors].  A text document is [uri, parseable, importable]: uri is    *)
(* the TextDocumentIdentifier, the two other fields stand for the content     *)
(* found at that uri: whether it parses, and the names of the modules for     *)
(* which an import edit can be computed.                                      *)

has_definition(module, name) == name \in module.definitions

has_constructor(module, name) == name \in module.constructors

\* edits::parse_document: Option<ParsedDocument>
parse_document(td) ==
    [some |-> td.parseable, uri |-> td.uri, importable |-> td.importable]

\* ParsedDocument::import: Option<AnnotatedEdit>, an AnnotatedEdit being <<title, edit>>
import(parsed_document, module, unqualified) ==
    [some |-> module.name \in parsed_document.importable,
     edit |-> << [import |-> module.name, symbol |-> unqualified],
                 [op |-> "insert_import", module |-> module.name,
                  unqualified |-> unqualified] >>]

\* ParsedDocument::remove_import: AnnotatedEdit
remove_import(parsed_document, start, is_qualified) ==
    << [remove |-> start],
       [op |-> "remove_import", start |-> start, is_qualified |-> is_qualified] >>

----------------------------------------------------------------------------
(* The candidate generators. *)

\* the bug "a failed import ends the search" (break instead of skip)
unknown_identifier_break(modules, parsed_document, data) ==
    IF data.tag = "String"
    THEN LET found == SelectSeq(modules, LAMBDA m : has_definition(m, data.str))
             ok(i) == import(parsed_document, found[i], SomeName(data.str)).some
             stop == IF \A i \in 1..Len(found) : ok(i) THEN Len(found)
                     ELSE (CHOOSE i \in 1..Len(found) :
                               ~ok(i) /\ \A j \in 1..(i - 1) : ok(j)) - 1
         IN [i \in 1..stop |->
                 import(parsed_document, found[i], SomeName(data.str)).edit]
    ELSE <<>>

unknown_identifier(modules, parsed_document, data) ==
    IF data.tag = "String"
    THEN LET found == SelectSeq(modules, LAMBDA m :
                          /\ has_definition(m, data.str)
                          /\ import(parsed_document, m, SomeName(data.str)).some)
         IN [i \in 1..Len(found) |->
                 import(parsed_document, found[i], SomeName(data.str)).edit]
    ELSE <<>>

\* the bug "constructors are looked up among the definitions"
unknown_constructor_as_definition(modules, parsed_document, data) ==
    unknown_identifier(modules, parsed_document, data)

unknown_constructor(modules, parsed_document, data) ==
    IF data.tag = "String"
    THEN LET found == SelectSeq(modules, LAMBDA m :
                          /\ has_constructor(m, data.str)
                          /\ import(parsed_document, m, SomeName(data.str)).some)
         IN [i \in 1..Len(found) |->
                 import(parsed_document, found[i], SomeName(data.str)).edit]
    ELSE <<>>

\* the bug "the candidates come out in the reverse of the enumeration order"
unknown_module_reversed(modules, parsed_document, data) ==
    IF data.tag = "String"
    THEN LET found == SelectSeq(modules, LAMBDA m :
                          /\ ends_with(m.name, data.str)
                          /\ import(parsed_document, m, NoName).some)
         IN [i \in 1..Len(found) |->
                 import(parsed_document, found[Len(found) + 1 - i], NoName).edit]
    ELSE <<>>

\* the bug "substring match instead of suffix match"
unknown_module_contains(modules, parsed_document, data) ==
    IF data.tag = "String"
    THEN LET found == SelectSeq(modules, LAMBDA m :
                          /\ contains(m.name, data.str)
                          /\ import(parsed_document, m, NoName).some)
         IN [i \in 1..Len(found) |-> import(parsed_document, found[i], NoName).edit]
    ELSE <<>>

unknown_module(modules, parsed_document, data) ==
    IF data.tag = "String"
    THEN LET found == SelectSeq(modules, LAMBDA m :
                          /\ ends_with(m.name, data.str)
                          /\ import(parsed_document, m, NoName).some)
         IN [i \in 1..Len(found) |-> import(parsed_document, found[i], NoName).edit]
    ELSE <<>>

\* one unused-import payload: split(','), the 2-tuple match, parse::<usize> of
\* the second field, then bool::from_str of the first; panic is the message of
\* the panic it raises, "" if none
decode_unused_import(args) ==
    LET fields == split(args, ",")
    IN IF Len(fields) # 2
       THEN [panic |-> "malformed unused_imports arguments: not a 2-tuple",
             start |-> 0, is_qualified |-> FALSE]
       ELSE IF ~parse_usize(fields[2]).ok
       THEN [panic |-> "malformed unused_imports argument: not a usize",
             start |-> 0, is_qualified |-> FALSE]
       ELSE IF ~parse_bool(fields[1]).ok
       THEN [panic |-> "malformed unused_imports argument: not a bool",
             start |-> 0, is_qualified |-> FALSE]
       ELSE [panic |-> "", start |-> parse_usize(fields[2]).value,
             is_qualified |-> parse_bool(fields[1]).value]

\* the steps of unused_imports after the order of iteration is fixed:
\* flatten() and `if let String` keep the string payloads, each is decoded,
\* the first panic aborts, otherwise every payload gives one removal
RemovalsInOrder(parsed_document, ordered) ==
    LET strings == SelectSeq(ordered, LAMBDA data : data.tag = "String")
        decoded == [i \in 1..Len(strings) |-> decode_unused_import(strings[i].str)]
        bad == {i \in 1..Len(strings) : decoded[i].panic # ""}
    IN IF bad # {}
       THEN [panic |-> decoded[CHOOSE i \in bad : \A j \in bad : i <= j].panic,
             edits |-> <<>>]
       ELSE [panic |-> "",
             edits |-> [i \in 1..Len(strings) |->
                            remove_import(parsed_document, decoded[i].start,
                                          decoded[i].is_qualified)]]

\* the bug "the payloads are taken in arrival order" (.rev() forgotten)
unused_imports_forward(parsed_document, datas) ==
    RemovalsInOrder(parsed_document, datas)

\* the bug "a malformed payload is skipped instead of aborting"
unused_imports_lenient(parsed_document, datas) ==
    LET rev == [i \in 1..Len(datas) |-> datas[Len(datas) + 1 - i]]
        good == SelectSeq(rev, LAMBDA data :
                    data.tag = "String" => decode_unused_import(data.str).panic = "")
    IN RemovalsInOrder(parsed_document, good)

unused_imports(parsed_document, datas) ==
    LET rev == [i \in 1..Len(datas) |-> datas[Len(datas) + 1 - i]]
    IN RemovalsInOrder(parsed_document, rev)

----------------------------------------------------------------------------
(* The action assemblers. *)

CodeAction(title, diagnostics, uri, edits) ==
    [title |-> title,
     kind |-> "quickfix",
     diagnostics |-> diagnostics,
     is_preferred |-> TRUE,
     edit |-> [changes |-> [u \in {uri} |-> edits]]]

\* the bug "every action carries all the candidate edits"
each_as_distinct_action_all_edits(acts, td, diag, edits) ==
    acts \o [i \in 1..Len(edits) |->
                 CodeAction(edits[i][1], <<diag>>, td.uri,
                            [j \in 1..Len(edits) |-> edits[j][2]])]

\* the bug "the diagnostic is not attached"
each_as_distinct_action_no_diagnostic(acts, td, diag, edits) ==
    acts \o [i \in 1..Len(edits) |->
                 CodeAction(edits[i][1], <<>>, td.uri, <<edits[i][2]>>)]

each_as_distinct_action(acts, td, diag, edits) ==
    acts \o [i \in 1..Len(edits) |->
                 CodeAction(edits[i][1], <<diag>>, td.uri, <<edits[i][2]>>)]

\* the bug "no action is pushed when there is nothing to remove"
as_single_action_skip_empty(acts, td, diagnostics, title, edits) ==
    IF edits = <<>>
    THEN acts
    ELSE Append(acts, CodeAction(title, diagnostics, td.uri,
                                 [i \in 1..Len(edits) |-> edits[i][2]]))

\* the bug "the edits are filed under a fixed uri, not the requested document's"
as_single_action_fixed_uri(acts, td, diagnostics, title, edits) ==
    Append(acts, CodeAction(title, diagnostics, "file:///lib/main.ak",
                            [i \in 1..Len(edits) |-> edits[i][2]]))

as_single_action(acts, td, diagnostics, title, edits) ==
    Append(acts, CodeAction(title, diagnostics, td.uri,
                            [i \in 1..Len(edits) |-> edits[i][2]]))

----------------------------------------------------------------------------
(* quickfix: the result is [panic, actions]; a panic in a generator unwinds   *)
(* through quickfix and nothing is returned.                                  *)

Returned(acts) == [panic |-> "", actions |-> acts]

\* the arms of the match, for a document that parsed
Dispatch(modules, td, parsed_document, q) ==
    CASE q.tag = "UnknownIdentifier" ->
             Returned(each_as_distinct_action(<<>>, td, q.diagnostics[1],
                 unknown_identifier(modules, parsed_document, q.diagnostics[1].data)))
      [] q.tag = "UnknownModule" ->
             Returned(each_as_distinct_action(<<>>, td, q.diagnostics[1],
                 unknown_module(modules, parsed_document, q.diagnostics[1].data)))
      [] q.tag = "UnknownConstructor" ->
             Returned(each_as_distinct_action(<<>>, td, q.diagnostics[1],
                 unknown_constructor(modules, parsed_document, q.diagnostics[1].data)))
      [] q.tag = "UnusedImports" ->
             LET generated == unused_imports(parsed_document,
                                  [i \in 1..Len(q.diagnostics) |-> q.diagnostics[i].data])
             IN IF generated.panic # ""
                THEN [panic |-> generated.panic, actions |-> <<>>]
                ELSE Returned(as_single_action(<<>>, td, q.diagnostics,
                                  "Remove redundant imports", generated.edits))

\* the bug "the candidates are generated whether or not the document parsed"
quickfix_parse_unchecked(modules, td, q) ==
    Dispatch(modules, td, parse_document(td), q)

quickfix(modules, td, q) ==
    LET parsed_document == parse_document(td)
    IN IF parsed_document.some
       THEN Dispatch(modules, td, parsed_document, q)
       ELSE Returned(<<>>)

----------------------------------------------------------------------------
(* The inputs the calls are drawn from. *)

foo == <<"f", "o", "o">>
baz == <<"b", "a", "z">>
Foo == <<"F", "o", "o">>
bar == <<"b", "a", "r">>
barn == <<"b", "a", "r", "n">>
x_bar == <<"x", "/", "b", "a", "r">>
y_z_bar == <<"y", "/", "z", "/", "b", "a", "r">>
lib == <<"l", "i", "b">>

ModuleUniverse ==
    { [name |-> x_bar, definitions |-> {foo}, constructors |-> {Foo}],
      [name |-> y_z_bar, definitions |-> {foo, baz}, constructors |-> {Foo}],
      [name |-> barn, definitions |-> {baz}, constructors |-> {}],
      [name |-> lib, definitions |-> {foo}, constructors |-> {}] }

\* the projects: up to MaxModules distinct modules, in any enumeration order
Projects ==
    UNION { { p \in [1..n -> ModuleUniverse] :
                  \A i, j \in 1..n : i # j => p[i] # p[j] } : n \in 0..MaxModules }

Uris == {"file:///validators/a.ak", "file:///lib/main.ak"}

Severities == {"ERROR", "WARNING", "INFORMATION", "HINT", "None"}

Codes ==
    { CodeString(c) : c \in {UNKNOWN_VARIABLE, UNKNOWN_TYPE, UNKNOWN_CONSTRUCTOR,
                             UNKNOWN_MODULE, UNUSED_IMPORT_VALUE, UNUSED_IMPORT_MODULE,
                             "aiken::check::unused::import::value",
                             "aiken::check::unknown::record_field"} }
    \cup {CodeNumber("1"), NoCode}

\* payloads of the unknown-* diagnostics: a name, or no usable payload
NameDatas ==
    {NoData, DataNumber} \cup { DataString(s) : s \in {foo, baz, Foo, bar, barn, <<>>} }

\* payloads of the unused-import diagnostics
P_false_10 == <<"f", "a", "l", "s", "e", ",", "1", "0">>
P_true_50 == <<"t", "r", "u", "e", ",", "5", "0">>
P_false_5 == <<"f", "a", "l", "s", "e", ",", "5">>
P_true_plus5 == <<"t", "r", "u", "e", ",", "+", "5">>
P_notabool_10 == <<"n", "o", "t", "a", "b", "o", "o", "l", ",", "1", "0">>
P_true == <<"t", "r", "u", "e">>
P_true_5_1 == <<"t", "r", "u", "e", ",", "5", ",", "1">>
P_false_minus1 == <<"f", "a", "l", "s", "e", ",", "-", "1">>
P_false_empty == <<"f", "a", "l", "s", "e", ",">>
P_true_2pow64 == <<"t", "r", "u", "e", ",">> \o
                 <<"1", "8", "4", "4", "6", "7", "4", "4", "0", "7",
                   "3", "7", "0", "9", "5", "5", "1", "6", "1", "6">>

\* "<bool>,<offset>": the literal true or false, a comma, and a non-negative
\* base-10 integer that is an offset into a document, so one a usize holds;
\* "+5" is counted as such an integer, 2^64 is not
WellFormedPayloads == {P_false_10, P_true_50, P_false_5, P_true_plus5}

MalformedPayloads ==
    {P_notabool_10, P_true, P_true_5_1, P_false_minus1, P_false_empty, P_true_2pow64}

UnusedDatas ==
    {NoData, DataNumber}
    \cup { DataString(s) : s \in WellFormedPayloads \cup MalformedPayloads }

Diagnostic(severity, code, data, range) ==
    [severity |-> severity, code |-> code, data |-> data, range |-> range]

\* the diagnostics handed to `assert`
Diagnostics ==
    { Diagnostic(s, c, d, r) :
          s \in Severities, c \in Codes,
          d \in NameDatas \cup {DataString(P_false_10), DataString(P_true)},
          r \in {1, 2} }

\* the diagnostics of a batch of unused imports
UnusedImportDiagnostics ==
    { Diagnostic("WARNING", CodeString(UNUSED_IMPORT_VALUE), d, 1) : d \in UnusedDatas }
    \cup {Diagnostic("WARNING", CodeString(UNUSED_IMPORT_MODULE), DataString(P_true_50), 2)}

\* the documents: importable names the modules of the project for which
\* ParsedDocument::import returns an edit
Documents(modules) ==
    { [uri |-> u, parseable |-> p, importable |-> s] :
          u \in Uris, p \in BOOLEAN,
          s \in SUBSET { modules[i].name : i \in 1..Len(modules) } }

\* the strategies `assert` produces for single diagnostics
SingleStrategies ==
    { assert(d) : d \in { e \in Diagnostics : e.range = 1 /\ e.data \in NameDatas } }
    \ {None}

BatchStrategies ==
    { UnusedImports(ds) :
          ds \in UNION { [1..n -> UnusedImportDiagnostics] : n \in 0..MaxBatch } }

----------------------------------------------------------------------------
(* The state machine: one call per behaviour, of `assert` or of `quickfix`. *)

NoDiagnostic == Diagnostic("None", NoCode, NoData, 0)
NoDocument == [uri |-> "", parseable |-> FALSE, importable |-> {}]

Init ==
    /\ pc = "idle"
    /\ diagnostic = NoDiagnostic
    /\ classified = None
    /\ compiler = <<>>
    /\ text_document = NoDocument
    /\ strategy = None
    /\ actions = <<>>
    /\ panic = ""
    /\ path = <<>>
    /\ breadcrumbs = <<>>
    /\ checked_modules = <<>>
    /\ output_files = <<>>

Classify ==
    /\ pc = "idle"
    /\ \E d \in Diagnostics :
           /\ diagnostic' = d
           /\ classified' = assert(d)
    /\ pc' = "asserted"
    /\ UNCHANGED <<compiler, text_document, strategy, actions, panic>>
    /\ UNCHANGED <<path, breadcrumbs, checked_modules, output_files>>

Run(modules, td, q) ==
    LET r == quickfix(modules, td, q)
    IN /\ compiler' = modules
       /\ text_document' = td
       /\ strategy' = q
       /\ actions' = r.actions
       /\ panic' = r.panic
       /\ pc' = IF r.panic = "" THEN "returned" ELSE "panicked"
       /\ UNCHANGED <<diagnostic, classified>>
       /\ UNCHANGED <<path, breadcrumbs, checked_modules, output_files>>

Quickfix ==
    /\ pc = "idle"
    /\ \/ \E modules \in Projects : \E td \in Documents(modules) :
              \E q \in { s \in SingleStrategies : s.tag # "UnusedImports" } :
                  Run(modules, td, q)
       \/ \E td \in Documents(<<>>) : \E q \in BatchStrategies :
              Run(<<>>, td, q)

Next == Classify \/ Quickfix

Spec == Init /\ [][Next]_vars

----------------------------------------------------------------------------
(* The documentation generator, crates/aiken-project/src/docs.rs.  Paths and  *)
(* module names are sequences of characters.  What the templates render is    *)
(* not modelled: the content of a DocFile is [template, data], the template   *)
(* (or source) it comes from and the values handed to it.                     *)

\* Itertools::join: the items with the separator between them
RECURSIVE join(_, _)
join(items, sep) ==
    IF items = <<>> THEN <<>>
    ELSE IF Len(items) = 1 THEN items[1]
    ELSE items[1] \o sep \o join(Tail(items), sep)

\* str::strip_prefix('/').unwrap_or(path): at most one leading '/' removed
strip_prefix_or(p) == IF p # <<>> /\ p[1] = "/" THEN Tail(p) ELSE p

\* the bug "the leading '/' is not stripped"
to_breadcrumbs_unstripped(p) ==
    LET parts == split(p, "/")
        joined == join([i \in 1..(Len(parts) - 1) |-> <<".", ".">>], <<"/">>)
    IN IF joined = <<>> THEN <<".">> ELSE joined

to_breadcrumbs(p) ==
    LET parts == split(strip_prefix_or(p), "/")
        joined == join([i \in 1..(Len(parts) - 1) |-> <<".", ".">>], <<"/">>)
    IN IF joined = <<>> THEN <<".">> ELSE joined

DocFile(p, template, data) ==
    [path |-> p, content |-> [template |-> template, data |-> data]]

DOT_HTML == <<".", "h", "t", "m", "l">>

\* DocFunction / DocType / DocConstant ::from_definition, flat_mapped over the
\* definitions of the module
DocFunctions(module) ==
    SelectSeq(module.definitions, LAMBDA def : def.kind = "Fn" /\ def.public)

DocTypes(module) ==
    SelectSeq(module.definitions, LAMBDA def :
        \/ def.kind = "TypeAlias" /\ def.public
        \/ def.kind = "DataType" /\ def.public /\ ~def.opaque
        \/ def.kind = "DataType" /\ def.public /\ def.opaque)

DocConstants(module) ==
    SelectSeq(module.definitions, LAMBDA def : def.kind = "ModuleConstant" /\ def.public)

\* SearchIndex::from_function, from_type, from_constant
SearchIndexOf(module, item) ==
    [doc |-> module.name, title |-> item.name,
     url |-> module.name \o DOT_HTML \o <<"#">> \o item.name]

\* SearchIndex::from_module
SearchIndexOfModule(module) ==
    [doc |-> module.name, title |-> module.name, url |-> module.name \o DOT_HTML]

\* the search indexes and the page of a module; with_module says whether the
\* module's own entry is pushed
ModuleDocs(module, with_module) ==
    LET functions == DocFunctions(module)
        types == DocTypes(module)
        constants == DocConstants(module)
        items == functions \o types \o constants
    IN [search_indexes |->
            [i \in 1..Len(items) |-> SearchIndexOf(module, items[i])]
            \o (IF with_module THEN <<SearchIndexOfModule(module)>> ELSE <<>>),
        file |->
            DocFile(module.name \o DOT_HTML, "module.html",
                    [module_name |-> module.name,
                     breadcrumbs |-> to_breadcrumbs(module.name),
                     functions |-> functions, types |-> types,
                     constants |-> constants])]

\* the bug "the module's own entry is pushed even when nothing is documented"
generate_module_always_indexed(module) ==
    ModuleDocs(module, TRUE)

generate_module(module) ==
    LET is_empty == /\ DocFunctions(module) = <<>>
                    /\ DocTypes(module) = <<>>
                    /\ DocConstants(module) = <<>>
    IN ModuleDocs(module, ~is_empty)

FAVICON_SVG == <<"f", "a", "v", "i", "c", "o", "n", ".", "s", "v", "g">>
CSS_ATOM_ONE_LIGHT ==
    << "c", "s", "s", "/", "a", "t", "o", "m", "-", "o", "n", "e",
       "-", "l", "i", "g", "h", "t", ".", "m", "i", "n", ".", "c",
       "s", "s" >>
CSS_ATOM_ONE_DARK ==
    << "c", "s", "s", "/", "a", "t", "o", "m", "-", "o", "n", "e",
       "-", "d", "a", "r", "k", ".", "m", "i", "n", ".", "c", "s",
       "s" >>
CSS_INDEX == <<"c", "s", "s", "/", "i", "n", "d", "e", "x", ".", "c", "s", "s">>
JS_HIGHLIGHT ==
    << "j", "s", "/", "h", "i", "g", "h", "l", "i", "g", "h", "t",
       ".", "m", "i", "n", ".", "j", "s" >>
JS_HIGHLIGHTJS_AIKEN ==
    << "j", "s", "/", "h", "i", "g", "h", "l", "i", "g", "h", "t",
       "j", "s", "-", "a", "i", "k", "e", "n", ".", "j", "s" >>
JS_LUNR == <<"j", "s", "/", "l", "u", "n", "r", ".", "m", "i", "n", ".", "j", "s">>
JS_INDEX == <<"j", "s", "/", "i", "n", "d", "e", "x", ".", "j", "s">>
SEARCH_DATA_JS == <<"s", "e", "a", "r", "c", "h", "-", "d", "a", "t", "a", ".", "j", "s">>
INDEX_HTML == <<"i", "n", "d", "e", "x", ".", "h", "t", "m", "l">>

AssetPaths ==
    << FAVICON_SVG, CSS_ATOM_ONE_LIGHT, CSS_ATOM_ONE_DARK, CSS_INDEX,
       JS_HIGHLIGHT, JS_HIGHLIGHTJS_AIKEN, JS_LUNR, JS_INDEX >>

generate_static_assets(search_indexes) ==
    [i \in 1..Len(AssetPaths) |-> DocFile(AssetPaths[i], "include_str", AssetPaths[i])]
    \o <<DocFile(SEARCH_DATA_JS, "window.Aiken.initSearch", search_indexes)>>

generate_readme ==
    DocFile(INDEX_HTML, "page.html", [breadcrumbs |-> <<".">>])

RECURSIVE Concat(_)
Concat(seqs) ==
    IF seqs = <<>> THEN <<>> ELSE seqs[1] \o Concat(Tail(seqs))

\* the bug "the readme page is not generated"
generate_all_without_readme(mods) ==
    LET kept == SelectSeq(mods, LAMBDA m : generate_module(m).search_indexes # <<>>)
        search_indexes == Concat([i \in 1..Len(kept) |->
                                      generate_module(kept[i]).search_indexes])
    IN [i \in 1..Len(kept) |-> generate_module(kept[i]).file]
       \o generate_static_assets(search_indexes)

generate_all(mods) ==
    LET kept == SelectSeq(mods, LAMBDA m : generate_module(m).search_indexes # <<>>)
        search_indexes == Concat([i \in 1..Len(kept) |->
                                      generate_module(kept[i]).search_indexes])
    IN [i \in 1..Len(kept) |-> generate_module(kept[i]).file]
       \o generate_static_assets(search_indexes)
       \o <<generate_readme>>

----------------------------------------------------------------------------
(* The inputs of the documentation generator. *)

Def(kind, public, opaque, name) ==
    [kind |-> kind, public |-> public, opaque |-> opaque, name |-> name]

DefinitionLists ==
    { <<>>,
      <<Def("Fn", FALSE, FALSE, <<"g">>)>>,
      <<Def("Test", FALSE, FALSE, <<"t">>), Def("Use", FALSE, FALSE, <<"u">>)>>,
      <<Def("Validator", FALSE, FALSE, <<"v">>), Def("DataType", FALSE, FALSE, <<"P">>),
        Def("TypeAlias", FALSE, FALSE, <<"Q">>), Def("ModuleConstant", FALSE, FALSE, <<"k">>)>>,
      <<Def("Fn", TRUE, FALSE, <<"f">>)>>,
      <<Def("TypeAlias", TRUE, FALSE, <<"A">>), Def("DataType", FALSE, FALSE, <<"P">>)>>,
      <<Def("DataType", TRUE, FALSE, <<"D">>), Def("DataType", TRUE, TRUE, <<"O">>)>>,
      <<Def("ModuleConstant", TRUE, FALSE, <<"c">>)>>,
      <<Def("ModuleConstant", TRUE, FALSE, <<"c">>), Def("Fn", FALSE, FALSE, <<"g">>),
        Def("DataType", TRUE, TRUE, <<"O">>), Def("Fn", TRUE, FALSE, <<"f">>),
        Def("Fn", TRUE, FALSE, <<"h">>)>> }

ModuleNames == {<<"a">>, <<"a", "/", "b">>, <<"i", "n", "d", "e", "x">>}

CheckedModules ==
    { [name |-> n, definitions |-> ds] : n \in ModuleNames, ds \in DefinitionLists }

ModuleLists == UNION { [1..n -> CheckedModules] : n \in 0..MaxDocModules }

\* the paths of the test of to_breadcrumbs (docs.rs:609-621)
TestPaths ==
    { <<"a", ".", "h", "t", "m", "l">>,
      <<"/", "a", ".", "h", "t", "m", "l">>,
      <<"/", "a", "/", "b", ".", "h", "t", "m", "l">>,
      <<"/", "a", "/", "b", "/", "c", ".", "h", "t", "m", "l">>,
      <<"a">>, <<"a", "/", "b">>, <<"a", "/", "b", "/", "c">> }

Paths ==
    TestPaths \cup UNION { [1..n -> {"a", ".", "/"}] : n \in 0..MaxPathLen }

----------------------------------------------------------------------------
(* The calls of the documentation generator, one per behaviour. *)

Breadcrumbs ==
    /\ pc = "idle"
    /\ \E p \in Paths :
           /\ path' = p
           /\ breadcrumbs' = to_breadcrumbs(p)
    /\ pc' = "breadcrumbs"
    /\ UNCHANGED <<diagnostic, classified, compiler, text_document, strategy,
                   actions, panic, checked_modules, output_files>>

GenerateAll ==
    /\ pc = "idle"
    /\ \E mods \in ModuleLists :
           /\ checked_modules' = mods
           /\ output_files' = generate_all(mods)
    /\ pc' = "generated"
    /\ UNCHANGED <<diagnostic, classified, compiler, text_document, strategy,
                   actions, panic, path, breadcrumbs>>

DocsNext == Breadcrumbs \/ GenerateAll

DocsSpec == Init /\ [][DocsNext]_vars

----------------------------------------------------------------------------
(* The fixed table of the classifier, as the specification gives it. *)

FixedTable ==
    { [severity |-> "ERROR", code |-> UNKNOWN_VARIABLE, category |-> "UnknownIdentifier"],
      [severity |-> "ERROR", code |-> UNKNOWN_TYPE, category |-> "UnknownIdentifier"],
      [severity |-> "ERROR", code |-> UNKNOWN_CONSTRUCTOR,
       category |-> "UnknownConstructor"],
      [severity |-> "ERROR", code |-> UNKNOWN_MODULE, category |-> "UnknownModule"],
      [severity |-> "WARNING", code |-> UNUSED_IMPORT_VALUE, category |-> "UnusedImports"],
      [severity |-> "WARNING", code |-> UNUSED_IMPORT_MODULE,
       category |-> "UnusedImports"] }

RowsOf(d) ==
    { row \in FixedTable : d.severity = row.severity /\ d.code = CodeString(row.code) }

FixableCodes == { CodeString(row.code) : row \in FixedTable }

\* C1: a diagnostic whose (severity, code) pair is not a row of the fixed
\* table is given no category by assert; this covers every fixable code at a
\* severity other than the one its row requires.
C1_NoCategoryOutsideTable ==
    (pc = "asserted" /\ RowsOf(diagnostic) = {}) => classified = None

\* C1 witness: unknown-variable at warning severity was classified, to nothing.
C1_Witness ==
    /\ pc = "asserted"
    /\ diagnostic.code = CodeString(UNKNOWN_VARIABLE)
    /\ diagnostic.severity = "WARNING"
    /\ diagnostic.code \in FixableCodes
    /\ classified = None

\* C2: a diagnostic whose (severity, code) pair is a row of the fixed table
\* is given exactly that row's category, carrying that same diagnostic (as a
\* one-element list for UnusedImports); and assert yields a result, a category
\* or none, for every diagnostic.
C2_TableCategory ==
    pc = "asserted" =>
        /\ \A row \in RowsOf(diagnostic) :
               classified = [tag |-> row.category, diagnostics |-> <<diagnostic>>]
        /\ classified.tag \in {"None"} \cup { row.category : row \in FixedTable }

\* C2 witness: unused-import-module at warning severity was classified as
\* UnusedImports holding that one diagnostic.
C2_Witness ==
    /\ pc = "asserted"
    /\ diagnostic.code = CodeString(UNUSED_IMPORT_MODULE)
    /\ diagnostic.severity = "WARNING"
    /\ classified = UnusedImports(<<diagnostic>>)

----------------------------------------------------------------------------
(* Vocabulary of the claims about quickfix. *)

Called == pc \in {"returned", "panicked"}

Importing == strategy.tag \in {"UnknownIdentifier", "UnknownConstructor", "UnknownModule"}

\* the payload of the one diagnostic of an importing strategy
Payload == strategy.diagnostics[1].data

ModulesOf(project) == { project[i] : i \in 1..Len(project) }

\* the text edits of a code action (its changes map has one key by construction)
EditsOf(action) ==
    action.edit.changes[CHOOSE u \in DOMAIN action.edit.changes : TRUE]

\* s ends with p: s is some prefix followed by p
SuffixOf(p, s) == \E k \in 0..Len(s) : s = SubSeq(s, 1, k) \o p

\* the module matches the payload, by the rule of the strategy's category
Matches(m) ==
    CASE strategy.tag = "UnknownIdentifier" -> Payload.str \in m.definitions
      [] strategy.tag = "UnknownConstructor" -> Payload.str \in m.constructors
      [] strategy.tag = "UnknownModule" -> SuffixOf(Payload.str, m.name)

\* the symbol an import of this category is qualified to
Qualifier == IF strategy.tag = "UnknownModule" THEN NoName ELSE SomeName(Payload.str)

\* the edit provider computed an import edit for the module
EditComputed(m) == text_document.parseable /\ m.name \in text_document.importable

\* the import edit the provider gives for the module
ImportEditFor(m) == import(parse_document(text_document), m, Qualifier).edit[2]

\* the actions whose only text edit is the import of the module
ActionsImporting(m) ==
    { k \in 1..Len(actions) : EditsOf(actions[k]) = <<ImportEditFor(m)>> }

\* C3: for UnknownIdentifier / UnknownConstructor with name payload X on a
\* parseable document, when the provider yields an import edit for each of
\* the n modules defining X (resp. a constructor X), quickfix returns exactly n
\* actions, one per such module, each holding exactly one text edit: the
\* import edit of its own module.
C3_OneActionPerDefiningModule ==
    ( /\ Called
      /\ strategy.tag \in {"UnknownIdentifier", "UnknownConstructor"}
      /\ text_document.parseable
      /\ Payload.tag = "String"
      /\ \A m \in ModulesOf(compiler) : Matches(m) => EditComputed(m) )
    => /\ pc = "returned"
       /\ Len(actions) = Cardinality({ m \in ModulesOf(compiler) : Matches(m) })
       /\ \A m \in ModulesOf(compiler) :
              Matches(m) => Cardinality(ActionsImporting(m)) = 1
       /\ \A k \in 1..Len(actions) : Len(EditsOf(actions[k])) = 1

\* C3 witness: foo is unknown, two of the three modules of the project define
\* it, and two actions came back.
C3_Witness ==
    /\ pc = "returned"
    /\ strategy.tag = "UnknownIdentifier"
    /\ text_document.parseable
    /\ Payload = DataString(foo)
    /\ Len(compiler) = 3
    /\ Cardinality({ m \in ModulesOf(compiler) : Matches(m) }) = 2
    /\ \A m \in ModulesOf(compiler) : Matches(m) => EditComputed(m)
    /\ Len(actions) = 2
    /\ EditsOf(actions[1]) # EditsOf(actions[2])

\* a whole-module import of m is among the candidates turned into actions
WholeModuleCandidate(m) ==
    \E k \in 1..Len(actions) :
        /\ EditsOf(actions[k]) = <<ImportEditFor(m)>>
        /\ EditsOf(actions[k])[1].unqualified = NoName

UnknownModuleCall ==
    /\ Called
    /\ strategy.tag = "UnknownModule"
    /\ text_document.parseable
    /\ Payload.tag = "String"

\* C4 as stated: for UnknownModule with payload P, a module yields a
\* candidate if and only if its full name ends with P.
C4_CandidateIffSuffix ==
    UnknownModuleCall =>
        \A m \in ModulesOf(compiler) :
            WholeModuleCandidate(m) <=> SuffixOf(Payload.str, m.name)

\* C4 amended: for UnknownModule with payload P, a module yields a candidate
\* (a whole-module import, no symbol qualifier) if and only if its full name
\* ends with P and the edit provider computes an import edit for it; there is
\* one candidate per such module, so payload "bar" with modules x/bar, y/z/bar
\* and barn, all importable, gives exactly two, for x/bar and y/z/bar.
C4_CandidateIffSuffixAndEdit ==
    UnknownModuleCall =>
        /\ pc = "returned"
        /\ \A m \in ModulesOf(compiler) :
               WholeModuleCandidate(m) <=>
                   (SuffixOf(Payload.str, m.name) /\ EditComputed(m))
        /\ Len(actions) =
               Cardinality({ m \in ModulesOf(compiler) :
                                 SuffixOf(Payload.str, m.name) /\ EditComputed(m) })
        /\ ( /\ Payload.str = bar
             /\ { m.name : m \in ModulesOf(compiler) } = {x_bar, y_z_bar, barn}
             /\ text_document.importable = {x_bar, y_z_bar, barn} )
           => /\ Len(actions) = 2
              /\ \A m \in ModulesOf(compiler) :
                     WholeModuleCandidate(m) <=> m.name \in {x_bar, y_z_bar}

\* C4 witness: payload "bar", modules x/bar, y/z/bar and barn, all
\* importable: two actions, none for barn.
C4_Witness ==
    /\ UnknownModuleCall
    /\ Payload.str = bar
    /\ { m.name : m \in ModulesOf(compiler) } = {x_bar, y_z_bar, barn}
    /\ text_document.importable = {x_bar, y_z_bar, barn}
    /\ Len(actions) = 2
    /\ \A m \in ModulesOf(compiler) : m.name = barn => ~WholeModuleCandidate(m)

----------------------------------------------------------------------------
(* Unused imports. *)

\* what each well-formed payload "<bool>,<offset>" encodes
Encoded(payload) ==
    CASE payload = P_false_10 -> [is_qualified |-> FALSE, start |-> 10]
      [] payload = P_true_50 -> [is_qualified |-> TRUE, start |-> 50]
      [] payload = P_false_5 -> [is_qualified |-> FALSE, start |-> 5]
      [] payload = P_true_plus5 -> [is_qualified |-> TRUE, start |-> 5]

\* the removal the provider gives for the diagnostic's own offset and flag
RemovalFor(d) ==
    remove_import(parse_document(text_document), Encoded(d.data.str).start,
                  Encoded(d.data.str).is_qualified)[2]

WellFormed(d) == d.data.tag = "String" /\ d.data.str \in WellFormedPayloads

Malformed(d) == d.data.tag = "String" /\ d.data.str \in MalformedPayloads

BatchOf(i) == strategy.diagnostics[i]

BatchLen == Len(strategy.diagnostics)

\* C5: for an UnusedImports batch of k diagnostics with well-formed payloads
\* on a parseable document, quickfix returns exactly one action, titled
\* "Remove redundant imports", whose k edits are the removals of the
\* diagnostics in reverse input order: the i-th edit is that of d(k+1-i).
C5_OneActionReversedEdits ==
    ( /\ Called
      /\ strategy.tag = "UnusedImports"
      /\ text_document.parseable
      /\ \A i \in 1..BatchLen : WellFormed(BatchOf(i)) )
    => /\ pc = "returned"
       /\ Len(actions) = 1
       /\ actions[1].title = "Remove redundant imports"
       /\ EditsOf(actions[1]) =
              [i \in 1..BatchLen |-> RemovalFor(BatchOf(BatchLen + 1 - i))]

\* C5 witness: the batch [d1(false,10), d2(true,50), d3(false,5)] gave one
\* action with the edits of d3, d2, d1 in that order.
C5_Witness ==
    /\ pc = "returned"
    /\ strategy.tag = "UnusedImports"
    /\ text_document.parseable
    /\ [i \in 1..BatchLen |-> BatchOf(i).data.str] = <<P_false_10, P_true_50, P_false_5>>
    /\ Len(actions) = 1
    /\ [i \in 1..3 |-> EditsOf(actions[1])[i].start] = <<5, 50, 10>>
    /\ [i \in 1..3 |-> EditsOf(actions[1])[i].is_qualified] = <<FALSE, TRUE, FALSE>>

\* C6 as stated: an UnusedImports batch holding a malformed payload, wherever
\* it sits, fails fatally and returns no code action.
C6_MalformedAlwaysFatal ==
    ( /\ Called
      /\ strategy.tag = "UnusedImports"
      /\ \E i \in 1..BatchLen : Malformed(BatchOf(i)) )
    => (pc = "panicked" /\ actions = <<>>)

\* C6 amended: on a parseable document, an UnusedImports batch holding a
\* malformed payload, wherever it sits, fails fatally and returns no code
\* action, not even one built from the well-formed payloads of the batch.
\* (On an unparseable document the payloads are never decoded: C7.)
C6_MalformedFatalWhenParsed ==
    ( /\ Called
      /\ strategy.tag = "UnusedImports"
      /\ text_document.parseable
      /\ \E i \in 1..BatchLen : Malformed(BatchOf(i)) )
    => (pc = "panicked" /\ panic # "" /\ actions = <<>>)

\* C6 witness: a parseable document, the malformed payload first in the batch
\* (decoded last) after two well-formed ones were decoded: a panic, no action.
C6_Witness ==
    /\ pc = "panicked"
    /\ strategy.tag = "UnusedImports"
    /\ text_document.parseable
    /\ BatchLen = 3
    /\ BatchOf(1).data = DataString(P_notabool_10)
    /\ WellFormed(BatchOf(2))
    /\ WellFormed(BatchOf(3))
    /\ actions = <<>>

----------------------------------------------------------------------------
(* All categories. *)

\* C7: when the document cannot be parsed, quickfix returns an empty list
\* and does not fail, whatever the category and the payloads.
C7_UnparseableIsSilent ==
    (Called /\ ~text_document.parseable)
    => (pc = "returned" /\ panic = "" /\ actions = <<>>)

\* C7 witness: an unparseable document and a batch with a malformed payload:
\* quickfix returned, with nothing.
C7_Witness ==
    /\ pc = "returned"
    /\ ~text_document.parseable
    /\ strategy.tag = "UnusedImports"
    /\ \E i \in 1..BatchLen : Malformed(BatchOf(i))
    /\ actions = <<>>

\* C8: every returned action has kind quickfix, is preferred, and attaches
\* the originating diagnostics: the one classified diagnostic for the three
\* importing categories, the whole batch in input order for UnusedImports.
C8_KindPreferredDiagnostics ==
    pc = "returned" =>
        \A k \in 1..Len(actions) :
            /\ actions[k].kind = "quickfix"
            /\ actions[k].is_preferred = TRUE
            /\ actions[k].diagnostics = strategy.diagnostics
            /\ Importing => Len(actions[k].diagnostics) = 1

\* C8 witness: a batch of three different diagnostics came back attached, in
\* input order, to the single action.
C8_Witness ==
    /\ pc = "returned"
    /\ strategy.tag = "UnusedImports"
    /\ BatchLen = 3
    /\ BatchOf(1) # BatchOf(2)
    /\ BatchOf(2) # BatchOf(3)
    /\ BatchOf(1) # BatchOf(3)
    /\ Len(actions) = 1
    /\ actions[1].diagnostics = <<BatchOf(1), BatchOf(2), BatchOf(3)>>

\* C9: the changes map of every returned action has exactly one key, the uri
\* of the requested text document.
C9_SingleDocument ==
    pc = "returned" =>
        \A k \in 1..Len(actions) :
            DOMAIN actions[k].edit.changes = {text_document.uri}

\* C9 witness: two actions returned for a request on validators/a.ak.
C9_Witness ==
    /\ pc = "returned"
    /\ text_document.uri = "file:///validators/a.ak"
    /\ Len(actions) = 2
    /\ \A k \in 1..2 : DOMAIN actions[k].edit.changes = {"file:///validators/a.ak"}

\* the actions that carry an import of the module, whatever else they carry
ActionsTouching(m) ==
    { k \in 1..Len(actions) :
          \E j \in 1..Len(EditsOf(actions[k])) : EditsOf(actions[k])[j].module = m.name }

\* C10: in the three importing categories a matching module for which the
\* provider computes no import edit is dropped silently: quickfix returns,
\* no action is produced for that module, and there is one action for every
\* matching module for which an edit was computed, and no other.
C10_UnresolvableDropped ==
    (Called /\ Importing /\ Payload.tag = "String")
    => /\ pc = "returned"
       /\ \A m \in ModulesOf(compiler) :
              /\ (Matches(m) /\ ~EditComputed(m)) => ActionsTouching(m) = {}
              /\ (Matches(m) /\ EditComputed(m)) =>
                     Cardinality(ActionsImporting(m)) = 1
       /\ Len(actions) =
              Cardinality({ m \in ModulesOf(compiler) : Matches(m) /\ EditComputed(m) })

\* C10 witness: three modules define foo, the provider has no edit for the
\* first of them in enumeration order, and the two others still got their
\* action.
C10_Witness ==
    /\ pc = "returned"
    /\ strategy.tag = "UnknownIdentifier"
    /\ text_document.parseable
    /\ Payload = DataString(foo)
    /\ Len(compiler) = 3
    /\ \A m \in ModulesOf(compiler) : Matches(m)
    /\ ~EditComputed(compiler[1])
    /\ EditComputed(compiler[2])
    /\ EditComputed(compiler[3])
    /\ Len(actions) = 2

----------------------------------------------------------------------------
(* Order of the candidates; batches with payloads that are not strings. *)

\* the modules that match and for which an edit was computed, in the
\* enumeration order of the project
Resolved ==
    SelectSeq(compiler, LAMBDA m : Matches(m) /\ EditComputed(m))

\* C13: in the three importing categories the actions come in the module
\* index's enumeration order: the k-th action imports from the k-th module,
\* in that order, among those that match and yield an edit; every module of
\* the project is examined, so a match after the first is not lost.
C13_EnumerationOrder ==
    (Called /\ Importing /\ Payload.tag = "String")
    => /\ pc = "returned"
       /\ Len(actions) = Len(Resolved)
       /\ \A k \in 1..Len(actions) :
              EditsOf(actions[k]) = <<ImportEditFor(Resolved[k])>>

\* C13 witness: payload "bar": x/bar and y/z/bar both match and yield an
\* edit, y/z/bar is enumerated first and x/bar last with barn in between, and
\* the actions import y/z/bar, then x/bar.
C13_Witness ==
    /\ pc = "returned"
    /\ strategy.tag = "UnknownModule"
    /\ Payload = DataString(bar)
    /\ text_document.parseable
    /\ [i \in 1..Len(compiler) |-> compiler[i].name] = <<y_z_bar, barn, x_bar>>
    /\ text_document.importable = {x_bar, y_z_bar, barn}
    /\ Len(actions) = 2
    /\ EditsOf(actions[1])[1].module = y_z_bar
    /\ EditsOf(actions[2])[1].module = x_bar

\* the diagnostics of the batch whose payload is a JSON string
StringPayloads == { i \in 1..BatchLen : BatchOf(i).data.tag = "String" }

\* C14: for UnusedImports on a parseable document with no malformed string
\* payload, quickfix returns exactly one action even with nothing to remove:
\* a diagnostic whose payload is absent or not a JSON string gives no edit and
\* no failure, so the action has as many edits as there are diagnostics with a
\* string payload (possibly none), and its diagnostics are the whole batch.
C14_NonStringPayloadsSkipped ==
    ( /\ Called
      /\ strategy.tag = "UnusedImports"
      /\ text_document.parseable
      /\ \A i \in 1..BatchLen : ~Malformed(BatchOf(i)) )
    => /\ pc = "returned"
       /\ Len(actions) = 1
       /\ Len(EditsOf(actions[1])) = Cardinality(StringPayloads)
       /\ actions[1].diagnostics = strategy.diagnostics

\* C14 witness: a batch of an absent payload and a payload that is not a
\* string: one action, no edit, both diagnostics attached.
C14_Witness ==
    /\ pc = "returned"
    /\ strategy.tag = "UnusedImports"
    /\ text_document.parseable
    /\ [i \in 1..BatchLen |-> BatchOf(i).data] = <<NoData, DataNumber>>
    /\ Len(actions) = 1
    /\ EditsOf(actions[1]) = <<>>
    /\ Len(actions[1].diagnostics) = 2

----------------------------------------------------------------------------
(* The documentation generator: generate_all and to_breadcrumbs. *)

\* the module has a public function, type alias, data type or constant
Documented(m) ==
    \E i \in 1..Len(m.definitions) :
        /\ m.definitions[i].public
        /\ m.definitions[i].kind \in {"Fn", "TypeAlias", "DataType", "ModuleConstant"}

\* its public functions, types and constants
PublicItems(m) ==
    { i \in 1..Len(m.definitions) :
          /\ m.definitions[i].public
          /\ m.definitions[i].kind \in {"Fn", "TypeAlias", "DataType", "ModuleConstant"} }

FilesFrom(template) ==
    SelectSeq(output_files, LAMBDA f : f.content.template = template)

DocumentedModules == SelectSeq(checked_modules, Documented)

RECURSIVE Sum(_)
Sum(ns) == IF ns = <<>> THEN 0 ELSE ns[1] + Sum(Tail(ns))

\* the entries of the search index, taken from the search-data.js file
SearchEntries == FilesFrom("window.Aiken.initSearch")[1].content.data

\* C11: generate_all returns one page "<module name>.html" for each input
\* module with a public function, type alias, data type or constant and none
\* for the others, one index.html readme page, the eight static assets, and
\* one search-data.js whose entries are, per documented module, one per public
\* function, type and constant plus one for the module.
C11_GeneratedFiles ==
    pc = "generated" =>
        /\ Len(FilesFrom("module.html")) = Len(DocumentedModules)
        /\ \A i \in 1..Len(DocumentedModules) :
               /\ FilesFrom("module.html")[i].path = DocumentedModules[i].name \o DOT_HTML
               /\ FilesFrom("module.html")[i].content.data.module_name =
                      DocumentedModules[i].name
        /\ Len(FilesFrom("page.html")) = 1
        /\ FilesFrom("page.html")[1].path = INDEX_HTML
        /\ [i \in 1..Len(FilesFrom("include_str")) |-> FilesFrom("include_str")[i].path]
               = AssetPaths
        /\ Len(FilesFrom("window.Aiken.initSearch")) = 1
        /\ FilesFrom("window.Aiken.initSearch")[1].path = SEARCH_DATA_JS
        /\ Len(output_files) = Len(DocumentedModules) + Len(AssetPaths) + 2
        /\ Len(SearchEntries) =
               Sum([i \in 1..Len(DocumentedModules) |->
                        Cardinality(PublicItems(DocumentedModules[i])) + 1])
        /\ \A e \in { SearchEntries[i] : i \in 1..Len(SearchEntries) } :
               \E i \in 1..Len(DocumentedModules) : e.doc = DocumentedModules[i].name
        /\ \A i \in 1..Len(DocumentedModules) :
               LET m == DocumentedModules[i]
               IN /\ \E j \in 1..Len(SearchEntries) :
                         /\ SearchEntries[j].doc = m.name
                         /\ SearchEntries[j].title = m.name
                         /\ SearchEntries[j].url = m.name \o DOT_HTML
                  /\ \A d \in PublicItems(m) :
                         \E j \in 1..Len(SearchEntries) :
                             /\ SearchEntries[j].doc = m.name
                             /\ SearchEntries[j].title = m.definitions[d].name

\* C11 witness: two modules went in, one with nothing public and one with
\* four public definitions among five: one page, five search entries.
C11_Witness ==
    /\ pc = "generated"
    /\ Len(checked_modules) = 2
    /\ ~Documented(checked_modules[1])
    /\ checked_modules[1].definitions # <<>>
    /\ Cardinality(PublicItems(checked_modules[2])) = 4
    /\ Len(FilesFrom("module.html")) = 1
    /\ Len(SearchEntries) = 5

\* k copies of ".." joined by "/"
RECURSIVE DotDots(_)
DotDots(k) ==
    IF k = 1 THEN <<".", ".">> ELSE <<".", ".", "/">> \o DotDots(k - 1)

\* the path without its leading '/', if it has one
Unrooted(p) == IF Len(p) > 0 /\ p[1] = "/" THEN SubSeq(p, 2, Len(p)) ELSE p

Separators(p) == Cardinality({ i \in 1..Len(p) : p[i] = "/" })

\* C12: to_breadcrumbs gives, for a path with k '/' after at most one leading
\* '/' is removed, k copies of ".." joined by "/" when k >= 1 and "." when
\* k = 0; so "a", "a.html", "/a.html" give ".", "a/b", "/a/b.html" give "..",
\* and "a/b/c", "/a/b/c.html" give "../..".
C12_Breadcrumbs ==
    pc = "breadcrumbs" =>
        /\ breadcrumbs = IF Separators(Unrooted(path)) = 0
                         THEN <<".">>
                         ELSE DotDots(Separators(Unrooted(path)))
        /\ path \in {<<"a">>, <<"a", ".", "h", "t", "m", "l">>, <<"/", "a", ".", "h", "t", "m", "l">>} => breadcrumbs = <<".">>
        /\ path \in {<<"a", "/", "b">>, <<"/", "a", "/", "b", ".", "h", "t", "m", "l">>} => breadcrumbs = <<".", ".">>
        /\ path \in {<<"a", "/", "b", "/", "c">>, <<"/", "a", "/", "b", "/", "c", ".", "h", "t", "m", "l">>}
               => breadcrumbs = <<".", ".", "/", ".", ".">>

\* C12 witness: "/a/b/c.html" gave "../..".
C12_Witness ==
    /\ pc = "breadcrumbs"
    /\ path = <<"/", "a", "/", "b", "/", "c", ".", "h", "t", "m", "l">>
    /\ breadcrumbs = <<".", ".", "/", ".", ".">>

\* C15 as stated: when the input modules have pairwise distinct names, the
\* files returned by generate_all have pairwise distinct paths.
C15_DistinctPaths ==
    ( /\ pc = "generated"
      /\ \A i, j \in 1..Len(checked_modules) :
             i # j => checked_modules[i].name # checked_modules[j].name )
    => \A i, j \in 1..Len(output_files) :
           i # j => output_files[i].path # output_files[j].path

====
